---- MODULE Spec2Model ----
(***************************************************************************)
(* Model of jenkins_jobs/modules/hipchat_notif.py: the HipChat module of   *)
(* jenkins-job-builder.  One HipChat instance lazily caches credentials    *)
(* read from the global configuration and, per job, translates the job's   *)
(* 'hipchat' mapping into two XML subtrees of the job document.            *)
(***************************************************************************)
EXTENDS Naturals, Sequences, FiniteSets, TLC

VARIABLES
    global_config,  \* registry.global_config: section -> (option -> string)
    self,           \* the HipChat instance: authToken, jenkinsUrl, sendAs
    xml_parent,     \* the job document handed to gen_xml
    parent0,        \* the job document as it was before any gen_xml call on it
    hist,           \* per gen_xml call on this document: its outcome, and whether it passed the gate
    last,           \* inputs, pre-state and outcome of the latest gen_xml call
    running         \* FALSE once sys.exit(1) has ended the process

vars == <<global_config, self, xml_parent, parent0, hist, last, running>>

(***************************************************************************)
(* Bounds of the model.                                                    *)
(***************************************************************************)
MaxCalls == 2   \* gen_xml calls on one job document
MaxRooms == 2   \* length of a 'rooms' list
MaxFlags == 2   \* event flags set together in one mapping (or all seven)

(***************************************************************************)
(* Python values.                                                          *)
(***************************************************************************)
None  == "<None>"     \* Python None (attribute values, element text)
Unset == "<unset>"    \* an attribute never assigned: reading it raises AttributeError

\* truth value of a string-or-None, as in "not self.authToken"
Truthy(v) == v # None /\ v # ""

Has(m, k) == k \in DOMAIN m

\* dict.get(k, default)
Get(m, k, default) == IF k \in DOMAIN m THEN m[k] ELSE default

\* str(b) for a bool
PyStr(b) == IF b THEN "True" ELSE "False"

\* str.lower() on the strings str(bool) produces
Lower(s) == CASE s = "True" -> "true" [] s = "False" -> "false" [] OTHER -> s

\* Join with the separator written after every element, the last one included
RECURSIVE JoinTrailing(_, _)
JoinTrailing(sep, seq) ==
    IF seq = <<>> THEN "" ELSE Head(seq) \o sep \o JoinTrailing(sep, Tail(seq))

\* sep.join(seq), left to right
RECURSIVE Join(_, _)
Join(sep, seq) ==
    IF seq = <<>> THEN ""
    ELSE IF Len(seq) = 1 THEN seq[1]
    ELSE Join(sep, SubSeq(seq, 1, Len(seq) - 1)) \o sep \o seq[Len(seq)]

(***************************************************************************)
(* xml.etree.ElementTree.  An element is a tag, a text and its children.   *)
(* gen_xml holds the two nodes it builds by reference; the model keeps     *)
(* their values and writes them into the document at the position where    *)
(* SubElement appended them.                                               *)
(***************************************************************************)
Element(tag) == [tag |-> tag, text |-> None, children |-> <<>>]

\* Element.find(tag) on the direct children: index of the first match, 0 for None
Find(elem, tag) ==
    IF \E i \in 1..Len(elem.children) : elem.children[i].tag = tag
    THEN CHOOSE i \in 1..Len(elem.children) :
            /\ elem.children[i].tag = tag
            /\ \A j \in 1..(i - 1) : elem.children[j].tag # tag
    ELSE 0

\* XML.SubElement(elem, tag): elem with a new, empty child appended
SubElement(elem, tag) == [elem EXCEPT !.children = Append(@, Element(tag))]

\* XML.SubElement(elem, tag).text = text
SubElementText(elem, tag, text) ==
    [elem EXCEPT !.children = Append(@, [Element(tag) EXCEPT !.text = text])]

\* the document with 'node' as the last child of its i-th child
AppendUnder(doc, i, node) == [doc EXCEPT !.children[i].children = Append(@, node)]

PropertyTag == "jenkins.plugins.hipchat.HipChatNotifier_-HipChatJobProperty"
NotifierTag == "jenkins.plugins.hipchat.HipChatNotifier"

(***************************************************************************)
(* pkg_resources.parse_version on dotted numeric versions.  A version      *)
(* string is the sequence of its characters.                               *)
(***************************************************************************)
Digits == <<"0", "1", "2", "3", "4", "5", "6", "7", "8", "9">>

DigitValue(c) == (CHOOSE i \in 1..Len(Digits) : Digits[i] = c) - 1

\* the dotted components as numbers: "0.1.10" -> <<0, 1, 10>>
RECURSIVE ParseRelease(_, _, _)
ParseRelease(chars, acc, cur) ==
    IF chars = <<>> THEN Append(acc, cur)
    ELSE IF Head(chars) = "." THEN ParseRelease(Tail(chars), Append(acc, cur), 0)
    ELSE ParseRelease(Tail(chars), acc, cur * 10 + DigitValue(Head(chars)))

\* trailing zero components do not count: 0.1.8.0 == 0.1.8
RECURSIVE StripZeros(_)
StripZeros(rel) ==
    IF rel # <<>> /\ rel[Len(rel)] = 0 THEN StripZeros(SubSeq(rel, 1, Len(rel) - 1))
    ELSE rel

parse_version(chars) == StripZeros(ParseRelease(chars, <<>>, 0))

\* a >= b on parsed versions: component-wise, a missing component is 0
RECURSIVE VersionGE(_, _)
VersionGE(a, b) ==
    IF b = <<>> THEN TRUE
    ELSE IF a = <<>> THEN FALSE
    ELSE IF Head(a) # Head(b) THEN Head(a) > Head(b)
    ELSE VersionGE(Tail(a), Tail(b))

BaselineVersion == <<"0", ".", "1", ".", "8">>
DefaultVersion  == <<"0">>

(***************************************************************************)
(* six.moves.configparser: ConfigParser.get(section, option).              *)
(***************************************************************************)
ConfigGet(cfg, section, option) ==
    IF ~Has(cfg, section) THEN [ok |-> FALSE, err |-> "NoSectionError", val |-> None]
    ELSE IF ~Has(cfg[section], option)
         THEN [ok |-> FALSE, err |-> "NoOptionError", val |-> None]
    ELSE [ok |-> TRUE, err |-> "", val |-> cfg[section][option]]

(***************************************************************************)
(* HipChat.__init__                                                        *)
(***************************************************************************)
NewHipChat == [authToken |-> None, jenkinsUrl |-> None, sendAs |-> Unset]

(***************************************************************************)
(* HipChat._load_global_data: the instance afterwards and how the call     *)
(* ended ("return", "SystemExit" or the configparser error that escaped).  *)
(***************************************************************************)
load_global_data(s, cfg) ==
    IF Truthy(s.authToken) THEN [self |-> s, outcome |-> "return"]
    ELSE
    LET tok == ConfigGet(cfg, "hipchat", "authtoken") IN
    IF ~tok.ok
    THEN [self |-> s,
          outcome |-> IF tok.err = "NoSectionError" THEN "SystemExit" ELSE tok.err]
    ELSE
    LET s1 == [s EXCEPT !.authToken = tok.val] IN
    IF tok.val = "" THEN [self |-> s1, outcome |-> "SystemExit"]
    ELSE
    LET url == ConfigGet(cfg, "jenkins", "url") IN
    IF ~url.ok THEN [self |-> s1, outcome |-> url.err]
    ELSE
    LET s2 == [s1 EXCEPT !.jenkinsUrl = url.val]
        sa == ConfigGet(cfg, "hipchat", "send-as")
    IN  IF ~sa.ok THEN [self |-> s2, outcome |-> sa.err]
        ELSE [self |-> [s2 EXCEPT !.sendAs = sa.val], outcome |-> "return"]

(***************************************************************************)
(* HipChat.gen_xml, line by line.                                          *)
(***************************************************************************)

\* PassesGate without the test of 'enabled'
PassesGateIgnoringEnabled(data) ==
    /\ Has(data, "hipchat")
    /\ DOMAIN data["hipchat"] # {}

\* lines 105-106: the call goes on only for a non-empty mapping whose
\* 'enabled' is absent or true ("not hipchat" holds for None and for {})
PassesGate(data) ==
    /\ Has(data, "hipchat")
    /\ DOMAIN data["hipchat"] # {}
    /\ Get(data["hipchat"], "enabled", TRUE)

\* FindOrCreate that never looks for an existing section
FindOrCreateAlwaysCreating(doc, tag) ==
    [doc |-> SubElement(doc, tag), index |-> Len(doc.children) + 1]

\* lines 110-112 and 127-129: xml_parent.find(tag), created when None.
\* The document afterwards and the index of the section among its children.
FindOrCreate(doc, tag) ==
    LET i == Find(doc, tag) IN
    IF i = 0
    THEN [doc |-> SubElement(doc, tag), index |-> Len(doc.children) + 1]
    ELSE [doc |-> doc, index |-> i]

\* ResolveRoom that accepts exactly one of the two keys
ResolveRoomExclusive(hipchat) ==
    IF Has(hipchat, "rooms") /\ ~Has(hipchat, "room")
    THEN [ok |-> TRUE, text |-> Join(",", hipchat["rooms"]), warn |-> FALSE]
    ELSE IF Has(hipchat, "room") /\ ~Has(hipchat, "rooms")
    THEN [ok |-> TRUE, text |-> hipchat["room"], warn |-> TRUE]
    ELSE [ok |-> FALSE, text |-> None, warn |-> FALSE]

\* lines 118-125: the room text; 'rooms' wins over 'room', neither raises
ResolveRoom(hipchat) ==
    IF Has(hipchat, "rooms")
    THEN [ok |-> TRUE, text |-> Join(",", hipchat["rooms"]), warn |-> FALSE]
    ELSE IF Has(hipchat, "room")
    THEN [ok |-> TRUE, text |-> hipchat["room"], warn |-> TRUE]
    ELSE [ok |-> FALSE, text |-> None, warn |-> FALSE]

\* translate_to_xml with the sense of 'optional' inverted
translate_to_xml_inverted(hipchat, parent, source, target, optional) ==
    IF optional \/ Get(hipchat, source, FALSE)
    THEN SubElementText(parent, target, Lower(PyStr(Get(hipchat, source, FALSE))))
    ELSE parent

\* lines 133-137: translate_to_xml(parent, source, target, optional)
translate_to_xml(hipchat, parent, source, target, optional) ==
    IF ~optional \/ Get(hipchat, source, FALSE)
    THEN SubElementText(parent, target, Lower(PyStr(Get(hipchat, source, FALSE))))
    ELSE parent

\* lines 139-147: source key, target field, and the value passed as 'optional'
yaml2xmlkeys == <<
    [source |-> "start-notify",          target |-> "startNotification",  optional |-> FALSE],
    [source |-> "notify-success",        target |-> "notifySuccess",      optional |-> TRUE],
    [source |-> "notify-aborted",        target |-> "notifyAborted",      optional |-> TRUE],
    [source |-> "notify-not-built",      target |-> "notifyNotBuilt",     optional |-> TRUE],
    [source |-> "notify-unstable",       target |-> "notifyUnstable",     optional |-> TRUE],
    [source |-> "notify-failure",        target |-> "notifyFailure",      optional |-> TRUE],
    [source |-> "notify-back-to-normal", target |-> "notifyBackToNormal", optional |-> TRUE] >>

\* lines 150-153: the inner loop over yaml2xmlkeys for one xmlparent,
\* from the i-th key on
RECURSIVE TranslateKeys(_, _, _)
TranslateKeys(hipchat, parent, i) ==
    IF i > Len(yaml2xmlkeys) THEN parent
    ELSE TranslateKeys(hipchat,
                       translate_to_xml(hipchat, parent, yaml2xmlkeys[i].source,
                                        yaml2xmlkeys[i].target, yaml2xmlkeys[i].optional),
                       i + 1)

\* AtLeastBaseline with a strict comparison
AboveBaseline(plugin_info) ==
    /\ VersionGE(parse_version(Get(plugin_info, "version", DefaultVersion)),
                 parse_version(BaselineVersion))
    /\ parse_version(Get(plugin_info, "version", DefaultVersion))
          # parse_version(BaselineVersion)

\* lines 155-158: the version test that selects the notifier's URL fields
AtLeastBaseline(plugin_info) ==
    VersionGE(parse_version(Get(plugin_info, "version", DefaultVersion)),
              parse_version(BaselineVersion))

\* lines 155-167: the notifier's URL fields, token and room.  Reading
\* self.sendAs before it was ever assigned raises AttributeError, after
\* 'buildServerUrl' was appended.
FinishNotifier(s, hippub, plugin_info, room_text) ==
    IF AtLeastBaseline(plugin_info)
    THEN LET u == SubElementText(hippub, "buildServerUrl", s.jenkinsUrl) IN
         IF s.sendAs = Unset THEN [node |-> u, outcome |-> "AttributeError"]
         ELSE [node |-> SubElementText(
                          SubElementText(
                            SubElementText(u, "sendAs", s.sendAs),
                            "authToken", s.authToken),
                          "room", room_text),
               outcome |-> "return"]
    ELSE [node |-> SubElementText(
                     SubElementText(
                       SubElementText(hippub, "jenkinsUrl", s.jenkinsUrl),
                       "authToken", s.authToken),
                     "room", room_text),
          outcome |-> "return"]

Result(s, doc, outcome, loaded, warned) ==
    [self |-> s, xml_parent |-> doc, outcome |-> outcome,
     loader_called |-> loaded, warned |-> warned]

\* lines 104-167
gen_xml(s, cfg, doc, data, plugin_info) ==
    IF ~PassesGate(data) THEN Result(s, doc, "return", FALSE, FALSE)
    ELSE
    LET hipchat == data["hipchat"]
        ld == load_global_data(s, cfg)
    IN
    IF ld.outcome # "return" THEN Result(ld.self, doc, ld.outcome, TRUE, FALSE)
    ELSE
    LET props    == FindOrCreate(doc, "properties")
        pdefhip0 == SubElement(Element(PropertyTag), "room")
        rt       == ResolveRoom(hipchat)
    IN
    IF ~rt.ok
    THEN Result(ld.self, AppendUnder(props.doc, props.index, pdefhip0),
                "YAMLFormatError", TRUE, FALSE)
    ELSE
    LET pdefhip1 == [pdefhip0 EXCEPT !.children[1].text = rt.text]
        pubs     == FindOrCreate(props.doc, "publishers")
        hippub1  == TranslateKeys(hipchat, Element(NotifierTag), 1)
        pdefhip2 == TranslateKeys(hipchat, pdefhip1, 1)
        fin      == FinishNotifier(ld.self, hippub1, plugin_info,
                                   pdefhip2.children[1].text)
    IN  Result(ld.self,
               AppendUnder(AppendUnder(pubs.doc, props.index, pdefhip2),
                           pubs.index, fin.node),
               fin.outcome, TRUE, rt.warn)

(***************************************************************************)
(* Inputs.                                                                 *)
(***************************************************************************)
NoKeys == <<>>      \* an empty mapping

\* every optional key k of a mapping: absent, or present with a value of vals
Optional(k, vals) == {NoKeys} \cup {k :> v : v \in vals}

\* registry.global_config: the [hipchat] section may be missing, and so may
\* each of its options; the token may be blank; [jenkins] may be missing
HipchatSections ==
    {a @@ b : a \in Optional("authtoken", {"", "dummy"}),
              b \in Optional("send-as", {"Jenkins"})}

GlobalConfigs ==
    {h @@ j : h \in Optional("hipchat", HipchatSections),
              j \in Optional("jenkins", {[url |-> "http://localhost:8080/"]})}

\* registry.get_plugin_info("Jenkins HipChat Plugin"): with or without a version
Versions == { <<"0", ".", "1", ".", "2">>,
              <<"0", ".", "1", ".", "8">>,
              <<"0", ".", "1", ".", "9">>,
              <<"0", ".", "1", ".", "1", "0">> }

PluginInfos == Optional("version", Versions)

RoomNames == {"dev", "ops"}

RoomLists == UNION {[1..n -> RoomNames] : n \in 0..MaxRooms}

FlagKeys == {yaml2xmlkeys[i].source : i \in 1..Len(yaml2xmlkeys)}

\* the event flags of a mapping: any choice of up to MaxFlags of them, or all seven
FlagInputs ==
    UNION {[ks -> BOOLEAN] : ks \in {x \in SUBSET FlagKeys : Cardinality(x) <= MaxFlags}}
        \cup {[k \in FlagKeys |-> b] : b \in BOOLEAN}

\* mappings that differ in 'enabled' and in which room keys they carry
GateMappings ==
    {e @@ r @@ rs : e \in Optional("enabled", BOOLEAN),
                    r \in Optional("room", {"teamroom"}),
                    rs \in Optional("rooms", {<<"dev", "ops">>})}

\* mappings that differ in the 'rooms' list
RoomsMappings == {"rooms" :> rs : rs \in RoomLists}

\* mappings that differ in the event flags
FlagMappings == {[enabled |-> TRUE, rooms |-> <<"dev">>] @@ f : f \in FlagInputs}

JobData(mappings) == {NoKeys} \cup {"hipchat" :> h : h \in mappings}

\* job data of a job builder run: one gen_xml call per job document
JobInputs == JobData(GateMappings \cup RoomsMappings \cup FlagMappings)

\* job data for repeated gen_xml calls on the same document
RepeatInputs == JobData(GateMappings)

RepeatPluginInfos ==
    Optional("version", {<<"0", ".", "1", ".", "2">>, <<"0", ".", "1", ".", "9">>})

\* job documents gen_xml may be handed: sections missing, present, populated
Node(tag, children) == [tag |-> tag, text |-> None, children |-> children]

JobDocuments ==
    { Node("project", <<>>),
      Node("project", << Node("description", <<>>),
                         Node("properties", << Node("other.Property", <<>>) >>) >>),
      Node("project", << Node("publishers", << Node("other.Publisher", <<>>) >>),
                         Node("properties", <<>>),
                         Node("scm", <<>>) >>) }

(***************************************************************************)
(* The state machine.                                                      *)
(***************************************************************************)
NoCall ==
    [data |-> NoKeys, plugin_info |-> NoKeys, xml_before |-> Node("project", <<>>),
     self_before |-> NewHipChat, outcome |-> "none",
     loader_called |-> FALSE, warned |-> FALSE]

Init ==
    /\ global_config \in GlobalConfigs
    /\ self = NewHipChat
    /\ xml_parent \in JobDocuments
    /\ parent0 = xml_parent
    /\ hist = <<>>
    /\ last = NoCall
    /\ running = TRUE

\* one gen_xml(parser, xml_parent, data) call
GenXml(data, plugin_info) ==
    /\ running
    /\ Len(hist) < MaxCalls
    /\ LET r == gen_xml(self, global_config, xml_parent, data, plugin_info) IN
       /\ self' = r.self
       /\ xml_parent' = r.xml_parent
       /\ hist' = Append(hist, [outcome |-> r.outcome, enabled |-> PassesGate(data)])
       /\ last' = [data |-> data, plugin_info |-> plugin_info,
                   xml_before |-> xml_parent, self_before |-> self,
                   outcome |-> r.outcome, loader_called |-> r.loader_called,
                   warned |-> r.warned]
       /\ running' = (r.outcome # "SystemExit")
    /\ UNCHANGED <<global_config, parent0>>

\* the builder moves on to the next job: a new document, the same instance
NewJob ==
    /\ running
    /\ hist # <<>>
    /\ xml_parent' \in JobDocuments
    /\ parent0' = xml_parent'
    /\ hist' = <<>>
    /\ last' = NoCall
    /\ UNCHANGED <<global_config, self, running>>

RepeatCall == \E d \in RepeatInputs, p \in RepeatPluginInfos : GenXml(d, p)

Next == RepeatCall \/ NewJob

Spec == Init /\ [][Next]_vars

\* a job builder run: gen_xml is called once on each job document
JobCall == hist = <<>> /\ \E d \in JobInputs, p \in PluginInfos : GenXml(d, p)

NextJob == JobCall \/ NewJob

SpecJob == Init /\ [][NextJob]_vars

(***************************************************************************)
(* Reading the state: the latest call and the nodes it appended.           *)
(***************************************************************************)
Called == last.outcome # "none"

\* the 'hipchat' mapping of the latest call (NoKeys when the job data has none)
Mapping == Get(last.data, "hipchat", NoKeys)

\* the latest call got past the enabled gate and returned normally
Succeeded == Called /\ PassesGate(last.data) /\ last.outcome = "return"

\* the outcomes with which the credential loader ends a call
LoaderOutcomes == {"SystemExit", "NoSectionError", "NoOptionError"}

\* the global configuration holds a token, a server URL and a send-as name
CredentialsComplete ==
    /\ Has(global_config, "hipchat") /\ Has(global_config, "jenkins")
    /\ Has(global_config["hipchat"], "authtoken")
    /\ global_config["hipchat"]["authtoken"] # ""
    /\ Has(global_config["hipchat"], "send-as")
    /\ Has(global_config["jenkins"], "url")

Count(doc, tag) == Cardinality({i \in 1..Len(doc.children) : doc.children[i].tag = tag})

\* the children of the document's section 'tag' (none when it has no such section)
Section(doc, tag) ==
    IF Find(doc, tag) = 0 THEN <<>> ELSE doc.children[Find(doc, tag)].children

Last(seq) == seq[Len(seq)]

\* the nodes the latest successful call appended
NewProperty == Last(Section(xml_parent, "properties"))
NewNotifier == Last(Section(xml_parent, "publishers"))

Fields(node) == {node.children[i].tag : i \in 1..Len(node.children)}

\* how many children of node carry the tag, and the texts they hold
Occurs(node, tag) == Count(node, tag)
Texts(node, tag) ==
    {node.children[i].text : i \in {j \in 1..Len(node.children) : node.children[j].tag = tag}}

OtherFlags == {i \in 1..Len(yaml2xmlkeys) : yaml2xmlkeys[i].source # "start-notify"}

(***************************************************************************)
(* The claims.                                                             *)
(***************************************************************************)

\* C1: for a mapping that is not disabled and has neither 'room' nor 'rooms',
\* gen_xml ends with YAMLFormatError and leaves the document exactly as it
\* was: no section is created and no node is appended.  Stated for
\* configurations whose credentials load and for mappings with at least one
\* key; a mapping with no keys at all, which the claim includes, returns at
\* the gate without any error (see C4_AtLeastOneRoomKey).
C1_FormatErrorLeavesDocument ==
    ( /\ Called
      /\ CredentialsComplete
      /\ PassesGate(last.data)
      /\ ~Has(Mapping, "room") /\ ~Has(Mapping, "rooms") )
    => /\ last.outcome = "YAMLFormatError"
       /\ xml_parent = last.xml_before

\* C2, as claimed: after a successful call both new nodes carry
\* 'startNotification' only when 'start-notify' is present in the input, and
\* each of the other six fields always, "true" when its key is true and
\* "false" when it is absent or false.
C2_FlagsAsClaimed ==
    Succeeded =>
        \A node \in {NewProperty, NewNotifier} :
            /\ ("startNotification" \in Fields(node)) <=> Has(Mapping, "start-notify")
            /\ \A i \in OtherFlags :
                  /\ Occurs(node, yaml2xmlkeys[i].target) = 1
                  /\ Texts(node, yaml2xmlkeys[i].target)
                        = {IF Get(Mapping, yaml2xmlkeys[i].source, FALSE)
                           THEN "true" ELSE "false"}

\* C2, amended: after a successful call both new nodes carry
\* 'startNotification' always ("true" when 'start-notify' is true, "false"
\* when it is absent or false), and each of the other six fields only when
\* its key is true, with text "true".
C2_FlagsAsWritten ==
    Succeeded =>
        \A node \in {NewProperty, NewNotifier} :
            /\ Occurs(node, "startNotification") = 1
            /\ Texts(node, "startNotification")
                  = {IF Has(Mapping, "start-notify") /\ Mapping["start-notify"]
                     THEN "true" ELSE "false"}
            /\ \A i \in OtherFlags :
                  IF Has(Mapping, yaml2xmlkeys[i].source) /\ Mapping[yaml2xmlkeys[i].source]
                  THEN /\ Occurs(node, yaml2xmlkeys[i].target) = 1
                       /\ Texts(node, yaml2xmlkeys[i].target) = {"true"}
                  ELSE Occurs(node, yaml2xmlkeys[i].target) = 0

\* C2 witness: a successful call whose input has no 'start-notify', one of the
\* other flags true and another one false.
C2_Witness ==
    /\ Succeeded
    /\ ~Has(Mapping, "start-notify")
    /\ Has(Mapping, "notify-success") /\ Mapping["notify-success"]
    /\ Has(Mapping, "notify-failure") /\ ~Mapping["notify-failure"]
    /\ "startNotification" \in Fields(NewNotifier)

\* C3: with no [hipchat] section, no 'authtoken' option in it, or a blank
\* token, a call on an enabled mapping ends in sys.exit and the document is
\* unchanged.
C3_MissingTokenExits ==
    ( /\ Called
      /\ PassesGate(last.data)
      /\ \/ ~Has(global_config, "hipchat")
         \/ ~Has(global_config["hipchat"], "authtoken")
         \/ global_config["hipchat"]["authtoken"] = "" )
    => /\ last.outcome = "SystemExit"
       /\ xml_parent = last.xml_before

\* C4, as claimed: on an enabled mapping gen_xml raises YAMLFormatError when
\* neither or both of 'room' and 'rooms' are present, and succeeds only when
\* exactly one is.  (Stated for configurations whose credentials load.)
C4_ExactlyOneRoomKey ==
    (Called /\ CredentialsComplete /\ PassesGate(last.data)) =>
        LET one == Has(Mapping, "room") # Has(Mapping, "rooms") IN
        /\ ~one => last.outcome = "YAMLFormatError"
        /\ one  => last.outcome = "return"

\* C4, amended: a call that gets past the enabled gate and the credential
\* loader raises YAMLFormatError exactly when neither 'room' nor 'rooms' is
\* present; with both present no format error is raised; with at least one
\* present and complete credentials the call returns normally.  A mapping
\* with no keys is treated as no mapping: the call returns without an error
\* and without touching the document.
C4_AtLeastOneRoomKey ==
    /\ (Called /\ PassesGate(last.data) /\ last.outcome \notin LoaderOutcomes) =>
          LET any == Has(Mapping, "room") \/ Has(Mapping, "rooms") IN
          /\ (last.outcome = "YAMLFormatError") <=> ~any
          /\ (any /\ CredentialsComplete) => last.outcome = "return"
    /\ (Called /\ Has(last.data, "hipchat") /\ DOMAIN Mapping = {}) =>
          /\ last.outcome = "return"
          /\ xml_parent = last.xml_before

\* C4 witness: a call with both 'room' and 'rooms' returned normally and
\* appended a property node.
C4_Witness ==
    /\ Succeeded
    /\ Has(Mapping, "room") /\ Has(Mapping, "rooms")
    /\ xml_parent # last.xml_before
    /\ NewProperty.tag = PropertyTag

\* C5: unless 'enabled' is explicitly true (absent or false), gen_xml writes
\* nothing to the document.
C5_NotExplicitlyEnabledWritesNothing ==
    ( /\ Called
      /\ Has(last.data, "hipchat")
      /\ ~(Has(Mapping, "enabled") /\ Mapping["enabled"]) )
    => xml_parent = last.xml_before

\* C6: with no hipchat mapping, or with enabled: false, gen_xml changes
\* nothing: the document is as before, the credential loader is not run, the
\* cached credentials are as before and the call returns normally, whatever
\* the global configuration holds.
C6_DisabledIsNoOp ==
    ( /\ Called
      /\ \/ ~Has(last.data, "hipchat")
         \/ (Has(Mapping, "enabled") /\ ~Mapping["enabled"]) )
    => /\ xml_parent = last.xml_before
       /\ ~last.loader_called
       /\ self = last.self_before
       /\ last.outcome = "return"

\* C6 witness: a call with enabled: false and a 'rooms' list returned on a
\* document that has both sections, under a configuration without [hipchat].
C6_Witness ==
    /\ Called
    /\ Has(Mapping, "enabled") /\ ~Mapping["enabled"] /\ Has(Mapping, "rooms")
    /\ ~Has(global_config, "hipchat")
    /\ Find(xml_parent, "properties") # 0 /\ Find(xml_parent, "publishers") # 0
    /\ last.outcome = "return"

\* the elements separated by commas, first element first
RECURSIVE CommaSeparated(_)
CommaSeparated(rooms) ==
    IF rooms = <<>> THEN ""
    ELSE IF Tail(rooms) = <<>> THEN Head(rooms)
    ELSE Head(rooms) \o "," \o CommaSeparated(Tail(rooms))

\* C7: after a successful call the 'room' text of the new property node and
\* of the new notifier node are the same text: the 'rooms' elements joined by
\* ',' in input order when 'rooms' is given, the 'room' string when only
\* 'room' is.
C7_RoomText ==
    Succeeded =>
        LET expected == IF Has(Mapping, "rooms") THEN CommaSeparated(Mapping["rooms"])
                        ELSE Mapping["room"]
        IN  /\ Occurs(NewProperty, "room") = 1
            /\ Occurs(NewNotifier, "room") = 1
            /\ Texts(NewProperty, "room") = {expected}
            /\ Texts(NewNotifier, "room") = {expected}

\* C7 witness: a successful call with a 'rooms' list of two different rooms.
C7_Witness ==
    /\ Succeeded
    /\ Has(Mapping, "rooms") /\ ~Has(Mapping, "room")
    /\ Len(Mapping["rooms"]) = 2 /\ Mapping["rooms"][1] # Mapping["rooms"][2]
    /\ Texts(NewNotifier, "room") = {"ops,dev"}

\* the calls on this document so far that passed the gate and returned
Successes == {i \in 1..Len(hist) : hist[i].enabled /\ hist[i].outcome = "return"}

\* every call on this document so far returned normally
AllReturned == \A i \in 1..Len(hist) : hist[i].outcome = "return"

\* seq is base followed by n elements, each with the tag
Extends(seq, base, n, tag) ==
    /\ Len(seq) = Len(base) + n
    /\ SubSeq(seq, 1, Len(base)) = base
    /\ \A i \in (Len(base) + 1)..Len(seq) : seq[i].tag = tag

\* C8: after n >= 1 successful calls on one document it has exactly one
\* 'properties' and one 'publishers' section, holding n HipChat property nodes
\* and n HipChat notifier nodes appended after the children already there;
\* every other child of the document is unchanged and keeps its position.
C8_AppendsWithoutReplacing ==
    (AllReturned /\ Successes # {}) =>
        LET n == Cardinality(Successes) IN
        /\ Count(xml_parent, "properties") = 1
        /\ Count(xml_parent, "publishers") = 1
        /\ Extends(Section(xml_parent, "properties"),
                   Section(parent0, "properties"), n, PropertyTag)
        /\ Extends(Section(xml_parent, "publishers"),
                   Section(parent0, "publishers"), n, NotifierTag)
        /\ Len(xml_parent.children) >= Len(parent0.children)
        /\ \A i \in 1..Len(parent0.children) :
              /\ xml_parent.children[i].tag = parent0.children[i].tag
              /\ xml_parent.children[i].text = parent0.children[i].text
              /\ parent0.children[i].tag \notin {"properties", "publishers"}
                    => xml_parent.children[i] = parent0.children[i]
        /\ \A i \in (Len(parent0.children) + 1)..Len(xml_parent.children) :
              xml_parent.children[i].tag \in {"properties", "publishers"}

\* C8 witness: two successful calls on a document that already had a
\* populated 'properties' section and no 'publishers' section.
C8_Witness ==
    /\ AllReturned
    /\ Cardinality(Successes) = 2
    /\ Section(parent0, "properties") # <<>>
    /\ Find(parent0, "publishers") = 0
    /\ Len(Section(xml_parent, "publishers")) = 2

\* the versions of the model at or above 0.1.8
AtOrAboveBaseline ==
    { <<"0", ".", "1", ".", "8">>,
      <<"0", ".", "1", ".", "9">>,
      <<"0", ".", "1", ".", "1", "0">> }

\* C9: after a successful call the notifier node has 'buildServerUrl' and
\* 'sendAs' and no 'jenkinsUrl' when the reported version is at or above
\* 0.1.8, and 'jenkinsUrl' and neither of the other two when it is below or
\* no version is reported; the property node has none of the three.
C9_UrlSchema ==
    Succeeded =>
        LET new == /\ Has(last.plugin_info, "version")
                   /\ last.plugin_info["version"] \in AtOrAboveBaseline
            urls == {"buildServerUrl", "sendAs", "jenkinsUrl"}
        IN  /\ Fields(NewNotifier) \cap urls
                  = IF new THEN {"buildServerUrl", "sendAs"} ELSE {"jenkinsUrl"}
            /\ \A f \in Fields(NewNotifier) \cap urls : Occurs(NewNotifier, f) = 1
            /\ Fields(NewProperty) \cap urls = {}

\* C9 witness: a successful call under the baseline version itself.
C9_Witness ==
    /\ Succeeded
    /\ Has(last.plugin_info, "version")
    /\ last.plugin_info["version"] = BaselineVersion
    /\ "sendAs" \in Fields(NewNotifier)

\* C10: whenever the token is cached on the instance, the server URL and the
\* send-as name have been loaded too, so that no call that skips the loader
\* changes the document while either was never loaded.
C10_CacheIsComplete ==
    /\ Truthy(self.authToken) => (self.jenkinsUrl # None /\ self.sendAs # Unset)
    /\ (Called /\ Truthy(last.self_before.authToken) /\ xml_parent # last.xml_before)
          => (self.jenkinsUrl # None /\ self.sendAs # Unset)

====
